---- MODULE Spec2Model ----
(***************************************************************************)
(* A model of backend.py: the Bedrock embedding client with its retry      *)
(* loop, the module-level startup (cache load or embed-and-save, index     *)
(* build), the /search handler, and the TypeScript compareSkills handler   *)
(* that follows it in the same file.                                       *)
(*                                                                         *)
(* Strings are sequences of one-character strings, so that lower(),        *)
(* strip() and split(",") are computed, not assumed.                       *)
(***************************************************************************)
EXTENDS Integers, Sequences, FiniteSets, TLC

\* Number of concurrent /search handling contexts.
NReq == 2

\* ---------------------------------------------------------------- strings

Lower(c) == IF c = "A" THEN "a" ELSE IF c = "B" THEN "b" ELSE c

\* str.lower() / String.prototype.toLowerCase()
LowerStr(s) == [i \in 1..Len(s) |-> Lower(s[i])]

RECURSIVE LStrip(_)
LStrip(s) == IF s # <<>> /\ Head(s) = " " THEN LStrip(Tail(s)) ELSE s

RECURSIVE RStrip(_)
RStrip(s) == IF s # <<>> /\ s[Len(s)] = " "
             THEN RStrip(SubSeq(s, 1, Len(s) - 1)) ELSE s

\* str.strip() / String.prototype.trim()
Strip(s) == RStrip(LStrip(s))

\* str.split(","): the pieces between commas; "" splits to [""].
RECURSIVE SplitFrom(_, _)
SplitFrom(s, cur) ==
    IF s = <<>> THEN <<cur>>
    ELSE IF Head(s) = "," THEN <<cur>> \o SplitFrom(Tail(s), <<>>)
    ELSE SplitFrom(Tail(s), Append(cur, Head(s)))

Split(s) == SplitFrom(s, <<>>)

RECURSIVE SelectNonBlank(_)
SelectNonBlank(parts) ==
    IF parts = <<>> THEN <<>>
    ELSE IF Strip(Head(parts)) # <<>>
         THEN <<LowerStr(Strip(Head(parts)))>> \o SelectNonBlank(Tail(parts))
         ELSE SelectNonBlank(Tail(parts))

\* [s.strip().lower() for s in raw.split(",") if s.strip()]
ParseSkills(raw) == SelectNonBlank(Split(raw))

\* ------------------------------------------------------------ data values

\* A pandas cell: a string, or NaN for an empty CSV field.
Cell(s) == [isna |-> FALSE, str |-> s]
NaN == [isna |-> TRUE, str |-> <<>>]

Row(t, k) == [job_title |-> t, required_skills |-> k]

\* cs_jobs_dataset.csv as it may be found on disk.
Datasets ==
    { << Row(Cell(<<"A", "b", " ">>), Cell(<<"a", ",", " ", "B">>)),
         Row(Cell(<<"b">>), Cell(<<>>)) >>,
      << Row(Cell(<<"A", "b">>), NaN),
         Row(Cell(<<"a", "b">>), Cell(<<"b", ",", "a">>)) >>,
      << >> }

\* An embedding: a direction and a length; normalize_L2 keeps the direction.
Vec(d, n) == [dir |-> d, norm |-> n]

\* What the embedding model may answer with.
RemoteVectors == { Vec(1, 1), Vec(2, 3) }

NormalizeVec(v) == [v EXCEPT !.norm = IF v.norm = 0 THEN 0 ELSE 1]

\* faiss.normalize_L2 over the rows of a matrix.
normalize_L2(m) == [i \in 1..Len(m) |-> NormalizeVec(m[i])]

NoFile == [exists |-> FALSE]
ParquetFile(rows, vecs) == [exists |-> TRUE, df |-> rows, embedding |-> vecs]

\* Cache artifacts an earlier run may have left: written by to_parquet from a
\* non-empty dataset, possibly not the dataset now on disk.
OldCaches ==
    { ParquetFile(d, [i \in 1..Len(d) |-> Vec(i, 1)]) : d \in Datasets \ {<< >>} }

None == [none |-> TRUE]

\* The FAISS index: not yet created, or the rows added to it.
NoIndex == [built |-> FALSE, vectors |-> <<>>]
IndexFlatIP(m) == [built |-> TRUE, vectors |-> m]

\* ------------------------------------------------------------------ state

VARIABLES
    csvFile,      \* cs_jobs_dataset.csv
    cacheFile,    \* cs_jobs_with_embeddings.parquet, or NoFile
    pc,           \* where the module-level code of the server process is
    df,           \* the posting catalog
    embeddings,   \* the vectors, one per posting
    index,        \* the FAISS index (the vectors added to it), or None
    branch,       \* which arm of os.path.exists(parquet_path) this run took
    csvRead,      \* whether this run called pd.read_csv
    cacheWrites,  \* to_parquet calls of this run
    embedLog,     \* postings get_embedding was called for, in call order
    pauses,       \* time.sleep(1) pauses between postings
    fatal,        \* the exception that ended the module-level code, or None
    gePc,         \* get_embedding: "idle", "try", "handle", "returned", "raised"
    attempt,      \* get_embedding: iterations of the retry loop completed
    delay,        \* get_embedding: the next backoff delay
    resp,         \* the service's answer to the invocation in flight
    ret,          \* get_embedding: the value returned
    raised,       \* get_embedding: the exception raised
    invocations,  \* client.invoke_model calls of the current get_embedding call
    sleeps,       \* time.sleep delays of the current get_embedding call
    outcomes,     \* the service's answers during the current call, in order
    reqs,         \* the /search handling contexts
    hres          \* the response of the compareSkills handler

diskVars == <<csvFile, cacheFile>>
startupVars == <<pc, df, embeddings, index, branch, csvRead, cacheWrites,
                 embedLog, pauses, fatal>>
geVars == <<gePc, attempt, delay, resp, ret, raised, invocations, sleeps,
            outcomes>>
vars == <<csvFile, cacheFile, pc, df, embeddings, index, branch, csvRead,
          cacheWrites, embedLog, pauses, fatal, gePc, attempt, delay, resp,
          ret, raised, invocations, sleeps, outcomes, reqs, hres>>

Requests == 1..NReq

IdleReq == [pc |-> "idle", job_title |-> <<>>, nova |-> None, out |-> None]

\* The state of a freshly started server process.
ProcessInit ==
    /\ pc = "boot"
    /\ df = <<>>
    /\ embeddings = <<>>
    /\ index = NoIndex
    /\ branch = "none"
    /\ csvRead = FALSE
    /\ cacheWrites = 0
    /\ embedLog = <<>>
    /\ pauses = 0
    /\ fatal = None
    /\ gePc = "idle"
    /\ attempt = 0
    /\ delay = 0
    /\ resp = None
    /\ ret = None
    /\ raised = None
    /\ invocations = 0
    /\ sleeps = <<>>
    /\ outcomes = <<>>
    /\ reqs = [r \in Requests |-> IdleReq]

Init ==
    /\ csvFile \in Datasets
    /\ cacheFile \in {NoFile} \cup OldCaches
    /\ hres = None
    /\ ProcessInit

\* ---------------------------------------------------------- get_embedding

max_retries == 5

ThrottleResp ==
    [kind |-> "ClientError", code |-> "ThrottlingException", embedding |-> None]
ErrorResp ==
    [kind |-> "ClientError", code |-> "ValidationException", embedding |-> None]
\* Any exception of the call that is not a botocore ClientError.
OtherResp ==
    [kind |-> "Exception", code |-> "EndpointConnectionError", embedding |-> None]
OkResp(v) == [kind |-> "ok", code |-> "200", embedding |-> v]

Responses == {ThrottleResp, ErrorResp, OtherResp} \cup
             { OkResp(v) : v \in RemoteVectors }

\* e.response["Error"]["Code"] == "ThrottlingException"
IsThrottling(a) == a.kind = "ClientError" /\ a.code = "ThrottlingException"

GeReturn ==
    /\ gePc' = "idle"
    /\ attempt' = 0
    /\ delay' = 0
    /\ resp' = None
    /\ ret' = None
    /\ raised' = None
    /\ invocations' = 0
    /\ sleeps' = <<>>
    /\ outcomes' = <<>>

\* embeddings.append(get_embedding(txt)): the call, up to the loop's start.
CallGetEmbedding ==
    /\ pc = "loop"
    /\ gePc = "idle"
    /\ Len(embeddings) < Len(df)
    /\ pc' = "embedding"
    /\ embedLog' = Append(embedLog, Len(embeddings) + 1)
    /\ gePc' = "try"
    /\ attempt' = 0
    /\ delay' = 1
    /\ UNCHANGED <<resp, ret, raised, invocations, sleeps, outcomes>>
    /\ UNCHANGED <<df, embeddings, index, branch, csvRead, cacheWrites, pauses,
                   fatal>>
    /\ UNCHANGED <<diskVars, reqs, hres>>

\* InvokeModel with the loop bound off by one (range(max_retries + 1)): C2
\* must not survive it.
InvokeModelOneMore ==
    /\ gePc = "try"
    /\ attempt <= max_retries
    /\ \E a \in Responses :
          /\ resp' = a
          /\ outcomes' = Append(outcomes, a)
    /\ invocations' = invocations + 1
    /\ gePc' = "handle"
    /\ UNCHANGED <<attempt, delay, ret, raised, sleeps>>
    /\ UNCHANGED <<startupVars, diskVars, reqs, hres>>

\* client.invoke_model(...): one request to the service and its answer.
InvokeModel ==
    /\ gePc = "try"
    /\ attempt < max_retries
    /\ \E a \in Responses :
          /\ resp' = a
          /\ outcomes' = Append(outcomes, a)
    /\ invocations' = invocations + 1
    /\ gePc' = "handle"
    /\ UNCHANGED <<attempt, delay, ret, raised, sleeps>>
    /\ UNCHANGED <<startupVars, diskVars, reqs, hres>>

\* return np.array(result["embedding"], dtype="float32")
HandleSuccess ==
    /\ gePc = "handle"
    /\ resp.kind = "ok"
    /\ ret' = resp.embedding
    /\ gePc' = "returned"
    /\ UNCHANGED <<attempt, delay, resp, raised, invocations, sleeps, outcomes>>
    /\ UNCHANGED <<startupVars, diskVars, reqs, hres>>

\* HandleThrottling with a linear backoff (delay += 1): C1 must not survive
\* it.
HandleThrottlingLinear ==
    /\ gePc = "handle"
    /\ IsThrottling(resp)
    /\ sleeps' = Append(sleeps, delay)
    /\ delay' = delay + 1
    /\ attempt' = attempt + 1
    /\ gePc' = "try"
    /\ UNCHANGED <<resp, ret, raised, invocations, outcomes>>
    /\ UNCHANGED <<startupVars, diskVars, reqs, hres>>

\* except ClientError, code ThrottlingException: sleep(delay); delay *= 2,
\* and the for loop goes to its next iteration.
HandleThrottling ==
    /\ gePc = "handle"
    /\ IsThrottling(resp)
    /\ sleeps' = Append(sleeps, delay)
    /\ delay' = delay * 2
    /\ attempt' = attempt + 1
    /\ gePc' = "try"
    /\ UNCHANGED <<resp, ret, raised, invocations, outcomes>>
    /\ UNCHANGED <<startupVars, diskVars, reqs, hres>>

\* HandleClientError without the raise: every ClientError is backed off and
\* retried. C3 must not survive it.
HandleClientErrorRetried ==
    /\ gePc = "handle"
    /\ resp.kind = "ClientError"
    /\ ~IsThrottling(resp)
    /\ sleeps' = Append(sleeps, delay)
    /\ delay' = delay * 2
    /\ attempt' = attempt + 1
    /\ gePc' = "try"
    /\ UNCHANGED <<resp, ret, raised, invocations, outcomes>>
    /\ UNCHANGED <<startupVars, diskVars, reqs, hres>>

\* except ClientError, any other code: raise
HandleClientError ==
    /\ gePc = "handle"
    /\ resp.kind = "ClientError"
    /\ ~IsThrottling(resp)
    /\ raised' = [type |-> "ClientError", msg |-> resp.code]
    /\ gePc' = "raised"
    /\ UNCHANGED <<attempt, delay, resp, ret, invocations, sleeps, outcomes>>
    /\ UNCHANGED <<startupVars, diskVars, reqs, hres>>

\* An exception that is no ClientError reaches the second except clause, whose
\* class expression botocore.errorfactory.ThrottlingException is looked up
\* then: the exception propagates as it is, or the lookup's AttributeError
\* does, as the installed botocore decides.
HandleOtherException ==
    /\ gePc = "handle"
    /\ resp.kind = "Exception"
    /\ raised' \in { [type |-> resp.code, msg |-> resp.code],
                     [type |-> "AttributeError", msg |-> "ThrottlingException"] }
    /\ gePc' = "raised"
    /\ UNCHANGED <<attempt, delay, resp, ret, invocations, sleeps, outcomes>>
    /\ UNCHANGED <<startupVars, diskVars, reqs, hres>>

\* The for loop ran out: raise Exception("Max retries exceeded ...")
MaxRetriesExceeded ==
    /\ gePc = "try"
    /\ attempt >= max_retries
    /\ raised' = [type |-> "Exception", msg |-> "Max retries exceeded"]
    /\ gePc' = "raised"
    /\ UNCHANGED <<attempt, delay, resp, ret, invocations, sleeps, outcomes>>
    /\ UNCHANGED <<startupVars, diskVars, reqs, hres>>

\* --------------------------------------------------- module-level startup

\* os.path.exists(parquet_path) holds: read_parquet, embeddings from the file.
LoadCache ==
    /\ pc = "boot"
    /\ cacheFile.exists
    /\ branch' = "cache"
    /\ df' = cacheFile.df
    /\ embeddings' = cacheFile.embedding
    /\ pc' = "build"
    /\ UNCHANGED <<index, csvRead, cacheWrites, embedLog, pauses, fatal>>
    /\ UNCHANGED <<geVars, diskVars, reqs, hres>>

\* LoadDataset without the os.path.exists test: the run embeds although a
\* cache file is there. C4 must not survive it.
LoadDatasetAlways ==
    /\ pc = "boot"
    /\ branch' = "embed"
    /\ df' = csvFile
    /\ csvRead' = TRUE
    /\ embeddings' = <<>>
    /\ pc' = "loop"
    /\ UNCHANGED <<index, cacheWrites, embedLog, pauses, fatal>>
    /\ UNCHANGED <<geVars, diskVars, reqs, hres>>

\* No cache file: read_csv, embeddings = []
LoadDataset ==
    /\ pc = "boot"
    /\ ~cacheFile.exists
    /\ branch' = "embed"
    /\ df' = csvFile
    /\ csvRead' = TRUE
    /\ embeddings' = <<>>
    /\ pc' = "loop"
    /\ UNCHANGED <<index, cacheWrites, embedLog, pauses, fatal>>
    /\ UNCHANGED <<geVars, diskVars, reqs, hres>>

\* AppendEmbedding with the cache written after every posting: C9 must not
\* survive it.
AppendEmbeddingAndSave ==
    /\ pc = "embedding"
    /\ gePc = "returned"
    /\ embeddings' = Append(embeddings, ret)
    /\ pauses' = pauses + 1
    /\ cacheFile' = ParquetFile(SubSeq(df, 1, Len(embeddings) + 1),
                                Append(embeddings, ret))
    /\ cacheWrites' = cacheWrites + 1
    /\ pc' = "loop"
    /\ GeReturn
    /\ UNCHANGED <<df, index, branch, csvRead, embedLog, fatal>>
    /\ UNCHANGED <<csvFile, reqs, hres>>

\* get_embedding returned: embeddings.append(...); time.sleep(1)
AppendEmbedding ==
    /\ pc = "embedding"
    /\ gePc = "returned"
    /\ embeddings' = Append(embeddings, ret)
    /\ pauses' = pauses + 1
    /\ pc' = "loop"
    /\ GeReturn
    /\ UNCHANGED <<df, index, branch, csvRead, cacheWrites, embedLog, fatal>>
    /\ UNCHANGED <<diskVars, reqs, hres>>

\* EmbeddingFailed with the exception caught and the loop left: the index is
\* built over what was embedded so far. C5 must not survive it.
EmbeddingFailedIgnored ==
    /\ pc = "embedding"
    /\ gePc = "raised"
    /\ fatal' = raised
    /\ pc' = "build"
    /\ GeReturn
    /\ UNCHANGED <<df, embeddings, index, branch, csvRead, cacheWrites,
                   embedLog, pauses>>
    /\ UNCHANGED <<diskVars, reqs, hres>>

\* get_embedding raised: nothing at module level catches it, the import of
\* the module fails and the process ends.
EmbeddingFailed ==
    /\ pc = "embedding"
    /\ gePc = "raised"
    /\ fatal' = raised
    /\ pc' = "crashed"
    /\ GeReturn
    /\ UNCHANGED <<df, embeddings, index, branch, csvRead, cacheWrites,
                   embedLog, pauses>>
    /\ UNCHANGED <<diskVars, reqs, hres>>

\* np.vstack([]) of an empty dataset raises ValueError.
VStackEmpty ==
    /\ pc = "loop"
    /\ Len(embeddings) = Len(df)
    /\ embeddings = <<>>
    /\ fatal' = [type |-> "ValueError", msg |-> "need at least one array"]
    /\ pc' = "crashed"
    /\ UNCHANGED <<df, embeddings, index, branch, csvRead, cacheWrites,
                   embedLog, pauses>>
    /\ UNCHANGED <<geVars, diskVars, reqs, hres>>

\* The loop is over: np.vstack, df["embedding"] = ..., df.to_parquet(...)
SaveCache ==
    /\ pc = "loop"
    /\ Len(embeddings) = Len(df)
    /\ embeddings # <<>>
    /\ cacheFile' = ParquetFile(df, embeddings)
    /\ cacheWrites' = cacheWrites + 1
    /\ pc' = "build"
    /\ UNCHANGED <<df, embeddings, index, branch, csvRead, embedLog, pauses,
                   fatal>>
    /\ UNCHANGED <<geVars, csvFile, reqs, hres>>

\* faiss.normalize_L2(embeddings) works in place; index.add(embeddings)
BuildIndex ==
    /\ pc = "build"
    /\ embeddings' = normalize_L2(embeddings)
    /\ index' = IndexFlatIP(normalize_L2(embeddings))
    /\ pc' = "ready"
    /\ UNCHANGED <<df, branch, csvRead, cacheWrites, embedLog, pauses, fatal>>
    /\ UNCHANGED <<geVars, diskVars, reqs, hres>>

\* The process is started again (after a crash, or a running server is
\* stopped): memory is lost, the files stay.
Restart ==
    /\ pc \in {"crashed", "ready"}
    /\ pc' = "boot"
    /\ df' = <<>>
    /\ embeddings' = <<>>
    /\ index' = NoIndex
    /\ branch' = "none"
    /\ csvRead' = FALSE
    /\ cacheWrites' = 0
    /\ embedLog' = <<>>
    /\ pauses' = 0
    /\ fatal' = None
    /\ GeReturn
    /\ reqs' = [r \in Requests |-> IdleReq]
    /\ UNCHANGED <<diskVars, hres>>

\* ---------------------------------------------------------------- /search

\* Python's a / b on ints.
PyDiv(a, b) == IF b = 0 THEN [kind |-> "ZeroDivisionError"]
               ELSE [kind |-> "float", num |-> a, den |-> b]

Max(a, b) == IF a >= b THEN a ELSE b

Contains(seq, x) == \E i \in 1..Len(seq) : seq[i] = x

Min(S) == CHOOSE m \in S : \A n \in S : m <= n

\* job_titles a client may send.
Queries == { <<"A", "b">>, <<"a", "b">>, <<" ", "A", "b", " ">>, <<"b">> }

\* What the Nova Pro call may do: raise, or answer with a completion string.
NovaFailure == [ok |-> FALSE, completion |-> <<>>]
NovaAnswers ==
    { NovaFailure,
      [ok |-> TRUE, completion |-> <<"B">>],
      [ok |-> TRUE, completion |-> <<"a", ",", " ", "b", ",">>] }

\* try: ... resume_skills = [...]  except Exception: resume_skills = []
ExtractSkills(nova) ==
    IF nova.ok THEN ParseSkills(nova.completion) ELSE <<>>

\* df[df["job_title"].str.lower() == q.job_title.strip().lower()]: the row
\* numbers selected; a NaN title compares unequal.
job_row(dfv, job_title) ==
    { i \in 1..Len(dfv) :
        /\ ~dfv[i].job_title.isna
        /\ LowerStr(dfv[i].job_title.str) = LowerStr(Strip(job_title)) }

\* The body of search() after the Nova call: what the handler returns, or the
\* exception it ends with.
search(dfv, job_title, nova) ==
    LET resume_skills == ExtractSkills(nova)
        rows == job_row(dfv, job_title)
    IN  IF rows = {}
        THEN [kind |-> "not_found", error |-> "Job title not found",
              resume_skills |-> resume_skills]
        ELSE
        LET job_skills_raw == dfv[Min(rows)].required_skills
        IN  IF job_skills_raw.isna
            THEN [kind |-> "raised", error |-> "AttributeError",
                  resume_skills |-> resume_skills]
            ELSE
            LET job_skills == ParseSkills(job_skills_raw.str)
                skill_matches ==
                    [i \in 1..Len(job_skills) |->
                        [skill |-> job_skills[i],
                         matched |-> Contains(resume_skills, job_skills[i])]]
                nmatched ==
                    Cardinality({i \in 1..Len(skill_matches) :
                                    skill_matches[i].matched})
            IN  [kind |-> "match",
                 job_title |-> job_title,
                 job_skills |-> job_skills,
                 resume_skills |-> resume_skills,
                 skill_matches |-> skill_matches,
                 similarity |-> PyDiv(nmatched, Max(1, Len(skill_matches)))]

\* A request arrives at a serving process; the handler sends the Nova call.
SearchBegin(r) ==
    /\ pc = "ready"
    /\ reqs[r].pc \in {"idle", "done"}
    /\ \E q \in Queries :
          reqs' = [reqs EXCEPT ![r] =
                      [pc |-> "extracting", job_title |-> q, nova |-> None,
                       out |-> None]]
    /\ UNCHANGED <<startupVars, geVars, diskVars, hres>>

\* SearchComplete with the catalog's titles lowercased in place
\* (df["job_title"] = df["job_title"].str.lower()): C10 must not survive it.
SearchCompleteNormalisesCatalog(r) ==
    /\ pc = "ready"
    /\ reqs[r].pc = "extracting"
    /\ \E nova \in NovaAnswers :
          reqs' = [reqs EXCEPT ![r] =
                      [pc |-> "done", job_title |-> reqs[r].job_title,
                       nova |-> nova,
                       out |-> search(df, reqs[r].job_title, nova)]]
    /\ df' = [i \in 1..Len(df) |->
                [df[i] EXCEPT !.job_title.str = LowerStr(df[i].job_title.str)]]
    /\ UNCHANGED <<pc, embeddings, index, branch, csvRead, cacheWrites,
                   embedLog, pauses, fatal>>
    /\ UNCHANGED <<geVars, diskVars, hres>>

\* The Nova call ends (an answer or an exception) and the handler runs to its
\* end.
SearchComplete(r) ==
    /\ pc = "ready"
    /\ reqs[r].pc = "extracting"
    /\ \E nova \in NovaAnswers :
          reqs' = [reqs EXCEPT ![r] =
                      [pc |-> "done", job_title |-> reqs[r].job_title,
                       nova |-> nova,
                       out |-> search(df, reqs[r].job_title, nova)]]
    /\ UNCHANGED <<startupVars, geVars, diskVars, hres>>

\* uvicorn serves only once the module's top-level code has run to its end.
Next ==
    \/ LoadCache
    \/ LoadDataset
    \/ CallGetEmbedding
    \/ InvokeModel
    \/ HandleSuccess
    \/ HandleThrottling
    \/ HandleClientError
    \/ HandleOtherException
    \/ MaxRetriesExceeded
    \/ AppendEmbedding
    \/ EmbeddingFailed
    \/ VStackEmpty
    \/ SaveCache
    \/ BuildIndex
    \/ Restart
    \/ \E r \in Requests : SearchBegin(r)
    \/ \E r \in Requests : SearchComplete(r)

Spec == Init /\ [][Next]_vars

\* ------------------------------------------- compareSkills and its handler

\* Longest required_skills field, and longest skill list from the extractor,
\* that the handler is tried on.
MaxFieldLen == 2
MaxResumeSkills == 2

RECURSIVE SeqsUpTo(_, _)
SeqsUpTo(S, n) ==
    IF n = 0 THEN { <<>> }
    ELSE LET shorter == SeqsUpTo(S, n - 1)
         IN  shorter \cup { Append(q, x) : q \in shorter, x \in S }

\* JavaScript's a / b on numbers: 0 / 0 is NaN, x / 0 is Infinity.
JsDiv(a, b) ==
    IF b = 0
    THEN IF a = 0 THEN [kind |-> "NaN"] ELSE [kind |-> "Infinity"]
    ELSE [kind |-> "number", num |-> a, den |-> b]

\* x * k on a JavaScript number.
JsTimes(x, k) ==
    IF x.kind = "number" THEN [x EXCEPT !.num = x.num * k] ELSE x

\* new Set(list.map((s) => s.toLowerCase().trim())), in insertion order.
RECURSIVE NormalisedSet(_, _)
NormalisedSet(list, acc) ==
    IF list = <<>> THEN acc
    ELSE LET t == Strip(LowerStr(Head(list)))
         IN  NormalisedSet(Tail(list),
                           IF Contains(acc, t) THEN acc ELSE Append(acc, t))

RECURSIVE Filter(_, _, _)
Filter(list, other, keep) ==
    IF list = <<>> THEN <<>>
    ELSE IF Contains(other, Head(list)) = keep
         THEN <<Head(list)>> \o Filter(Tail(list), other, keep)
         ELSE Filter(Tail(list), other, keep)

compareSkills(jdSkills, resumeSkills) ==
    LET jdSet == NormalisedSet(jdSkills, <<>>)
        resumeSet == NormalisedSet(resumeSkills, <<>>)
        matchingSkills == Filter(jdSet, resumeSet, TRUE)
        missingSkills == Filter(jdSet, resumeSet, FALSE)
    IN  [matchPercentage |->
            JsTimes(JsDiv(Len(matchingSkills), Len(jdSet)), 100),
         matchingSkills |-> matchingSkills,
         missingSkills |-> missingSkills]

\* The first row's required_skills as csv-parser gives it: a string, or
\* undefined when the file has no row or no such column.
Undefined == [undefined |-> TRUE, str |-> <<>>]
Field(s) == [undefined |-> FALSE, str |-> s]

JdFields ==
    {Undefined} \cup { Field(s) : s \in SeqsUpTo({"a", "B", ",", " "}, MaxFieldLen) }

\* response.data.skills: the extractor's list, or a failed request.
ResumeSkillLists == SeqsUpTo({ <<"a">>, <<"b", " ">>, <<"A">> }, MaxResumeSkills)

\* jdData[0]?.required_skills?.split(",") || []
jdSkillsOf(field) == IF field.undefined THEN <<>> ELSE Split(field.str)

handler(method, filesPresent, extracted, field) ==
    IF method # "POST"
    THEN [status |-> 405, error |-> "Method not allowed"]
    ELSE IF ~filesPresent
    THEN [status |-> 400, error |-> "Files missing"]
    ELSE IF ~extracted.ok
    THEN [status |-> 500, error |-> "Request failed"]
    ELSE [status |-> 200,
          comparison |-> compareSkills(jdSkillsOf(field), extracted.skills),
          resumeSkills |-> extracted.skills,
          jdSkills |-> jdSkillsOf(field)]

\* One request to the serverless handler, from its arrival to its response.
Handle ==
    /\ hres = None
    /\ \E method \in {"POST", "GET"}, filesPresent \in BOOLEAN,
          field \in JdFields,
          extracted \in {[ok |-> FALSE, skills |-> <<>>]} \cup
                        { [ok |-> TRUE, skills |-> l] : l \in ResumeSkillLists } :
          hres' = handler(method, filesPresent, extracted, field)
    /\ UNCHANGED <<startupVars, geVars, diskVars, reqs>>

HandlerInit ==
    /\ csvFile = << >>
    /\ cacheFile = NoFile
    /\ hres = None
    /\ ProcessInit

HandlerSpec == HandlerInit /\ [][Handle]_vars

\* ---------------------------------------------------------- get_embedding
\* properties

\* The delays 1, 2, 4, ... of n backoff sleeps.
RECURSIVE Pow2(_)
Pow2(k) == IF k = 0 THEN 1 ELSE 2 * Pow2(k - 1)

Backoff(n) == [i \in 1..n |-> Pow2(i - 1)]

RECURSIVE Sum(_)
Sum(seq) == IF seq = <<>> THEN 0 ELSE Head(seq) + Sum(Tail(seq))

\* The first n answers of the current call were all throttling errors.
Throttled(n) == \A i \in 1..n : IsThrottling(outcomes[i])

\* The loop of get_embedding runs for as long as the process runs.
GetEmbeddingStep ==
    \/ InvokeModel
    \/ HandleSuccess
    \/ HandleThrottling
    \/ HandleClientError
    \/ HandleOtherException
    \/ MaxRetriesExceeded

TermSpec == Spec /\ WF_vars(GetEmbeddingStep)

\* C1: after n <= 4 throttling answers get_embedding has slept n times, with
\* delays 1, 2, 4, ... in that order, and goes on to invoke the service again;
\* when the next answer is a success it returns that answer's vector, having
\* invoked the service n + 1 times and slept n times, not once more.
C1_RetrySchedule ==
    /\ (gePc = "try" /\ Len(outcomes) <= 4 /\ Throttled(Len(outcomes)))
          => /\ sleeps = Backoff(Len(outcomes))
             /\ invocations = Len(outcomes)
             /\ attempt < max_retries
    /\ gePc = "returned"
          => LET n == Len(outcomes) - 1
             IN  /\ n \in 0..4
                 /\ Throttled(n)
                 /\ outcomes[n + 1].kind = "ok"
                 /\ invocations = n + 1
                 /\ sleeps = Backoff(n)
                 /\ ret = outcomes[n + 1].embedding

\* Four throttling answers, then a success: five invocations, delays 1,2,4,8.
C1_Witness ==
    /\ gePc = "returned"
    /\ Len(outcomes) = 5
    /\ Throttled(4)
    /\ invocations = 5
    /\ sleeps = <<1, 2, 4, 8>>

\* C2 (the final state): the service is never invoked a sixth time in one
\* call; when every answer was a throttling error the call ends after five
\* invocations and sleeps of 1, 2, 4, 8, 16 seconds (31 in all) with the
\* "max retries exceeded" failure and no vector.
C2_Exhausted ==
    /\ invocations <= 5
    /\ Sum(sleeps) <= 31
    /\ (Len(outcomes) = 5 /\ Throttled(5) /\ gePc = "try")
          => attempt >= max_retries
    /\ (gePc = "raised" /\ Throttled(Len(outcomes)))
          => /\ invocations = 5
             /\ sleeps = <<1, 2, 4, 8, 16>>
             /\ Sum(sleeps) = 31
             /\ raised = [type |-> "Exception", msg |-> "Max retries exceeded"]
             /\ ret = None

\* C2: a get_embedding call always ends, by a return or by a raise, and under
\* sustained throttling it ends as C2_Exhausted says.
C2_Terminates ==
    /\ []C2_Exhausted
    /\ (gePc = "try") ~> (gePc \in {"returned", "raised"})

C2_Witness ==
    /\ gePc = "raised"
    /\ Len(outcomes) = 5
    /\ Throttled(5)
    /\ sleeps = <<1, 2, 4, 8, 16>>

\* C3: an answer that is an error but no throttling signal is the last answer
\* of the call: get_embedding raises on it, with the ClientError it got, and
\* has slept only for the throttled attempts before it.
C3_FailFast ==
    \A i \in 1..Len(outcomes) :
        (outcomes[i].kind # "ok" /\ ~IsThrottling(outcomes[i]))
           => /\ i = Len(outcomes)
              /\ invocations = i
              /\ Throttled(i - 1)
              /\ sleeps = Backoff(i - 1)
              /\ gePc \in {"handle", "raised"}
              /\ gePc = "raised"
                    => /\ ret = None
                       /\ outcomes[i].kind = "ClientError"
                             => raised = [type |-> "ClientError",
                                          msg |-> outcomes[i].code]

\* A non-retryable error on the third attempt, with attempts left.
C3_Witness ==
    /\ gePc = "raised"
    /\ Len(outcomes) = 3
    /\ outcomes[3] = ErrorResp
    /\ sleeps = <<1, 2>>

\* ------------------------------------------------------ startup properties

\* C4: a run that found the cache file makes no get_embedding call and no
\* invocation of the service, does not read the CSV dataset and does not
\* write the cache file; its catalog and the vectors it indexes are those of
\* the file. A run embeds only when it found no cache file.
C4_CacheSuppressesEmbedding ==
    /\ branch = "cache"
          => /\ cacheFile.exists
             /\ embedLog = <<>>
             /\ gePc = "idle"
             /\ invocations = 0
             /\ outcomes = <<>>
             /\ pauses = 0
             /\ ~csvRead
             /\ cacheWrites = 0
             /\ df = cacheFile.df
             /\ pc = "build" => embeddings = cacheFile.embedding
             /\ pc = "ready"
                   => index = IndexFlatIP(normalize_L2(cacheFile.embedding))
    /\ (branch = "embed" /\ cacheWrites = 0) => ~cacheFile.exists
    /\ (embedLog # <<>> \/ csvRead) => branch = "embed"

\* A server that started from a cache written from another dataset.
C4_Witness ==
    /\ pc = "ready"
    /\ branch = "cache"
    /\ df # csvFile
    /\ index = IndexFlatIP(normalize_L2(cacheFile.embedding))

\* C5: a /search request is in a handling context only in a process whose
\* startup ran to its end: every posting has its vector and the index holds
\* all of them. Once an embedding call has failed the run has no index and
\* handles no request.
C5_SearchOnlyAfterStartup ==
    /\ \A r \in Requests : reqs[r].pc # "idle" => pc = "ready"
    /\ pc = "ready"
          => /\ fatal = None
             /\ gePc = "idle"
             /\ df # <<>>
             /\ Len(embeddings) = Len(df)
             /\ index.built
             /\ index.vectors = embeddings
             /\ Len(index.vectors) = Len(df)
    /\ (gePc = "raised" \/ fatal # None)
          => /\ pc \in {"embedding", "loop", "crashed"}
             /\ index = NoIndex
             /\ \A r \in Requests : reqs[r].pc = "idle"
    /\ fatal # None => pc = "crashed"
    /\ pc = "crashed" => fatal # None

\* A request being handled; and, separately reachable, a crashed startup.
C5_Witness ==
    /\ pc = "ready"
    /\ branch = "embed"
    /\ \E r \in Requests : reqs[r].pc = "done"

\* C9: without a cache file the postings are embedded one at a time in
\* dataset order, each once; the cache file is written once, after the last
\* one, and holds every posting with its vector. Until then no cache file
\* exists, whatever happens, so a run after a failed one starts from the
\* first posting again.
C9_CacheAllOrNothing ==
    /\ cacheWrites <= 1
    /\ embedLog = [i \in 1..Len(embedLog) |-> i]
    /\ Len(embedLog) <= Len(df)
    /\ branch = "embed"
          => /\ df = csvFile
             /\ pc = "embedding" => Len(embedLog) = Len(embeddings) + 1
             /\ pc \in {"loop", "build", "ready"}
                   => Len(embedLog) = Len(embeddings)
             /\ pc = "crashed"
                   => Len(embedLog) = Len(embeddings)
                         + (IF fatal.type = "ValueError" THEN 0 ELSE 1)
             /\ pauses = Len(embeddings)
             /\ cacheWrites = 0 => ~cacheFile.exists
             /\ cacheWrites = 1
                   => /\ Len(embedLog) = Len(df)
                      /\ cacheFile.exists
                      /\ cacheFile.df = df
                      /\ Len(cacheFile.embedding) = Len(df)
                      /\ normalize_L2(cacheFile.embedding)
                            = normalize_L2(embeddings)
                      /\ pc = "build" => cacheFile.embedding = embeddings
             /\ pc \in {"build", "ready"} => cacheWrites = 1

\* Embedding failed at the second posting, after the first was embedded: no
\* cache file is left.
C9_Witness ==
    /\ pc = "crashed"
    /\ branch = "embed"
    /\ Len(embedLog) = 2
    /\ Len(embeddings) = 1
    /\ fatal.type # "ValueError"
    /\ ~cacheFile.exists

\* ------------------------------------------------------ /search properties

\* C10: while the server serves, no step changes the catalog, the vectors or
\* the index, and the response a handling context ends with is the one
\* search() computes from the catalog, the request and the extractor's
\* answer alone.
C10_SearchReadOnly ==
    [][ /\ (pc = "ready" /\ pc' = "ready")
              => UNCHANGED <<df, embeddings, index, cacheFile, csvFile>>
        /\ \A r \in Requests :
              reqs'[r].pc = "done"
                 => reqs'[r].out =
                       search(df, reqs'[r].job_title, reqs'[r].nova) ]_vars

\* Two requests in flight at once, one answered with a match.
C10_Witness ==
    /\ pc = "ready"
    /\ reqs[1].pc = "done"
    /\ reqs[1].out.kind = "match"
    /\ reqs[2].pc = "extracting"

\* C6 (as claimed): when the Nova call failed the response carries an empty
\* resume skill list and is the not-found payload or a match result with no
\* skill matched.
C6_ExtractionFailureRecovered ==
    \A r \in Requests :
        (reqs[r].pc = "done" /\ ~reqs[r].nova.ok)
           => /\ reqs[r].out.resume_skills = <<>>
              /\ \/ reqs[r].out.kind = "not_found"
                 \/ /\ reqs[r].out.kind = "match"
                    /\ \A i \in 1..Len(reqs[r].out.skill_matches) :
                          ~reqs[r].out.skill_matches[i].matched

\* C7 (as claimed): a request resolves a posting exactly when some posting's
\* title equals the requested one after lowercasing and trimming both.
C7_TitleLookupTrimInsensitive ==
    \A r \in Requests :
        reqs[r].pc = "done"
           => ( (\E i \in 1..Len(df) :
                    /\ ~df[i].job_title.isna
                    /\ LowerStr(Strip(df[i].job_title.str))
                          = LowerStr(Strip(reqs[r].job_title)))
                <=> reqs[r].out.kind # "not_found" )

\* C8 (as claimed): every skill ratio is a number between 0 and 1 (0 to 100
\* for matchPercentage), and is 0 when the job has no skill: no response of
\* /search ends in an error for want of skills, and compareSkills never
\* gives a non-number.
C8_SkillRatioDefined ==
    /\ \A r \in Requests :
          reqs[r].pc = "done" /\ reqs[r].out.kind # "not_found"
             => /\ reqs[r].out.kind = "match"
                /\ reqs[r].out.similarity.kind = "float"
                /\ 0 <= reqs[r].out.similarity.num
                /\ reqs[r].out.similarity.num <= reqs[r].out.similarity.den
                /\ reqs[r].out.job_skills = <<>>
                      => reqs[r].out.similarity.num = 0
    /\ (hres # None /\ hres.status = 200)
          => /\ hres.comparison.matchPercentage.kind = "number"
             /\ 0 <= hres.comparison.matchPercentage.num
             /\ hres.comparison.matchPercentage.num
                   <= 100 * hres.comparison.matchPercentage.den
             /\ hres.comparison.matchingSkills = <<>>
                   => hres.comparison.matchPercentage.num = 0

====
